---- MODULE Spec2Model ----
(***************************************************************************)
(* A model of generate_tree.py: the recursive directory walk of            *)
(* get_tree_structure (a generator, modelled with an explicit stack of     *)
(* frames), count_chars, and main's sort of file_info and report writing.  *)
(*                                                                         *)
(* File names are sequences of character codes (<<97>> is "a"), so that    *)
(* str.lower() and the ordering of strings are computed, not assumed.      *)
(* A path is the sequence of the names of its components below the root.   *)
(***************************************************************************)
EXTENDS Integers, Sequences, FiniteSets, TLC

\* ------------------------------------------------------------------ bounds

\* Number of filesystem entries below the root in the enumerated small trees.
MaxNodes == 3

\* Largest number of files in the flat directories used around the top-100 cut.
MaxFlat == 101

\* main, line 78: file_info[:100].
TopN == 100

\* main, lines 66, 68, 73, 75: "=" * 80.
BannerWidth == 80

\* ------------------------------------------------------------ the inputs

VARIABLES
    parent,      \* filesystem: node -> its directory (0 is the root directory)
    kind,        \* filesystem: node -> "file" or "dir"
    name,        \* filesystem: node -> its name (a sequence of character codes)
    size,        \* filesystem: file -> the number of characters it decodes to
    denied,      \* filesystem: the nodes whose open / listing raises PermissionError
    ignore_arg,  \* the ignore_dirs argument of get_tree_structure
    ignore_dirs, \* the local ignore_dirs after line 19-20
    stack,       \* the active walk_directory generator frames, innermost first
    tree_lines,  \* the lines yielded so far
    visited,     \* history: the node each yielded line is about
    file_info,   \* the list file_info
    pc,          \* where main is
    output       \* the lines written to repo_structure.txt

vars == <<parent, kind, name, size, denied, ignore_arg, ignore_dirs, stack,
          tree_lines, visited, file_info, pc, output>>

fsvars == <<parent, kind, name, size, denied, ignore_arg>>

NameA == <<97>>
NameB == <<66>>
NameDist == <<100, 105, 115, 116>>

\* The names the small trees draw from: "a", "B" and "dist".
Names == {NameA, NameB, NameDist}

\* The sizes of the readable files of the small trees.
Sizes == {1, 2}

\* Line 20: {'.git', '__pycache__', 'node_modules', '.next', '.turbo', 'dist',
\* 'build', '.sst'}.
DefaultIgnoreDirs ==
    { <<46, 103, 105, 116>>,
      <<95, 95, 112, 121, 99, 97, 99, 104, 101, 95, 95>>,
      <<110, 111, 100, 101, 95, 109, 111, 100, 117, 108, 101, 115>>,
      <<46, 110, 101, 120, 116>>,
      <<46, 116, 117, 114, 98, 111>>,
      <<100, 105, 115, 116>>,
      <<98, 117, 105, 108, 100>>,
      <<46, 115, 115, 116>> }

\* The ignore_dirs arguments tried: None, and the empty set (nothing ignored).
IgnoreArgs == { [none |-> TRUE, dirs |-> {}], [none |-> FALSE, dirs |-> {}] }

Nodes == DOMAIN kind

\* ------------------------------------------------------- pure functions

\* str.lower() on ASCII names.
lower(s) == [i \in 1..Len(s) |-> IF s[i] \in 65..90 THEN s[i] + 32 ELSE s[i]]

\* Python's < on str: lexicographic by code point.
RECURSIVE StrLess(_, _)
StrLess(s, t) ==
    IF t = <<>> THEN FALSE
    ELSE IF s = <<>> THEN TRUE
    ELSE IF Head(s) # Head(t) THEN Head(s) < Head(t)
    ELSE StrLess(Tail(s), Tail(t))

is_file(x) == kind[x] = "file"

is_dir(x) == kind[x] = "dir"

\* A plausible slip: the key forgets .lower().
SortKeyRaw(x) == <<is_file(x), name[x]>>

\* Line 28: key=lambda x: (x.is_file(), x.name.lower()).
SortKey(x) == <<is_file(x), lower(name[x])>>

\* Python's < on the key tuples (False < True).
KeyLess(a, b) ==
    IF a[1] # b[1] THEN b[1] ELSE StrLess(a[2], b[2])

\* The sort of s, given the pairs <<j, i>> of places such that the element at
\* j must come out before the one at i: each element lands at one more than
\* the number of elements that come out before it.
SortBy(s, before) ==
    LET n == Len(s)
        place == {<<i, 1 + Cardinality({j \in 1..n : <<j, i>> \in before})>> : i \in 1..n}
    IN [p \in 1..n |-> s[(CHOOSE ip \in place : ip[2] = p)[1]]]

\* sorted(seq, key=...): ascending by key, equal keys in their input order.
sorted(s) ==
    SortBy(s, {ji \in (1..Len(s)) \X (1..Len(s)) :
                  \/ KeyLess(SortKey(s[ji[1]]), SortKey(s[ji[2]]))
                  \/ /\ ~KeyLess(SortKey(s[ji[2]]), SortKey(s[ji[1]]))
                     /\ ji[1] < ji[2]})

\* The nodes of a set in ascending order.
Ascending(S) ==
    LET place == {<<x, Cardinality({y \in S : y <= x})>> : x \in S}
    IN [p \in 1..Cardinality(S) |-> (CHOOSE xp \in place : xp[2] = p)[1]]

\* path.iterdir(): the children of d in the order the filesystem returns them
\* (node numbers are unrelated to names, so this order is arbitrary), or
\* PermissionError.
iterdir(d) ==
    IF d \in denied
    THEN [raised |-> "PermissionError", items |-> <<>>]
    ELSE [raised |-> "none",
          items |-> Ascending({x \in Nodes : parent[x] = d})]

\* The path of a node: root / ... / name.
RECURSIVE PathOf(_)
PathOf(x) == IF x = 0 THEN <<>> ELSE Append(PathOf(parent[x]), name[x])

\* item.relative_to(root).
relative_to(p, r) == SubSeq(p, Len(r) + 1, Len(p))

\* A plausible slip: the failure of open() is not absorbed.
count_chars_unguarded(x) == size[x]

\* Lines 9-15: len(f.read()), or 0 when open or read raises.
count_chars(x) == IF x \in denied THEN 0 ELSE size[x]

\* A plausible slip: only the children of the root are filtered.
IsIgnoredAtRoot(x) == name[x] \in ignore_dirs /\ parent[x] = 0

\* Line 35: item.name in ignore_dirs.
IsIgnored(x) == name[x] \in ignore_dirs

\* A plausible slip: the except clause names another exception.
CaughtNothing(exc) == FALSE

\* Line 47: except PermissionError.
Caught(exc) == exc = "PermissionError"

\* A plausible slip: files that count 0 characters are not recorded.
RecordFileNonEmpty(info, x, char_count) ==
    IF char_count > 0
    THEN Append(info, [full_path |-> PathOf(x), char_count |-> char_count,
                       relative_path |-> relative_to(PathOf(x), PathOf(0))])
    ELSE info

\* Lines 40-41: file_info.append((str(item), char_count, str(relative_path))).
RecordFile(info, x, char_count) ==
    Append(info, [full_path |-> PathOf(x), char_count |-> char_count,
                  relative_path |-> relative_to(PathOf(x), PathOf(0))])

\* The box-drawing characters are written in ASCII: "+-- " stands for
\* U+2514 U+2500 U+2500 space, "|-- " for U+251C U+2500 U+2500 space and
\* "|   " for U+2502 and three spaces.
LastBranch == "+-- "

MidBranch == "|-- "

\* Line 32.
current_prefix(is_last_item) == IF is_last_item THEN LastBranch ELSE MidBranch

\* Line 33.
connector(is_last_item) == IF is_last_item THEN "    " ELSE "|   "

\* Line 42: f"{prefix}{current_prefix}{item.name} ({char_count:,})".
FileLine(prefix, is_last_item, x, char_count) ==
    [prefix |-> prefix, branch |-> current_prefix(is_last_item),
     name |-> name[x], isdir |-> FALSE, count |-> char_count]

\* Line 44: f"{prefix}{current_prefix}{item.name}/" (no count is rendered).
DirLine(prefix, is_last_item, x) ==
    [prefix |-> prefix, branch |-> current_prefix(is_last_item),
     name |-> name[x], isdir |-> TRUE, count |-> 0]

\* A generator frame of walk_directory(path, prefix, is_last) before its body
\* has started.
Frame(path, prefix, is_last) ==
    [path |-> path, prefix |-> prefix, is_last |-> is_last,
     entered |-> FALSE, items |-> <<>>, i |-> 1]

\* A plausible slip: the sub-directory is walked after its parent's loop.
DescendLater(stk, fr) == stk \o <<fr>>

\* Line 46: yield from walk_directory(...): the new generator runs to its end
\* before the loop of the caller goes on.
Descend(stk, fr) == <<fr>> \o stk

\* A plausible slip: the handler sits around the whole walk.
UnwindAll(stk) == <<>>

\* Lines 47-48: the PermissionError ends the generator that raised it, and
\* only that one.
Unwind(stk) == Tail(stk)

\* A plausible slip: ties are broken as by sorting ascending and reversing.
DescBeforeReversed(s, j, i) ==
    \/ s[j].char_count > s[i].char_count
    \/ (s[j].char_count = s[i].char_count /\ j > i)

\* Line 61, key=lambda x: x[1], reverse=True: the entry at j comes out before
\* the one at i when its count is greater, or equal and it was there first
\* (list.sort keeps the order of equal keys, also with reverse=True).
DescBefore(s, j, i) ==
    \/ s[j].char_count > s[i].char_count
    \/ (s[j].char_count = s[i].char_count /\ j < i)

\* Line 61: file_info.sort(key=lambda x: x[1], reverse=True).
SortDesc(s) ==
    SortBy(s, {ji \in (1..Len(s)) \X (1..Len(s)) : DescBefore(s, ji[1], ji[2])})

\* A plausible slip: the slice is off by one.
SliceInclusive(s, k) == SubSeq(s, 1, IF Len(s) < k + 1 THEN Len(s) ELSE k + 1)

\* Line 78: s[:k].
Slice(s, k) == SubSeq(s, 1, IF Len(s) < k THEN Len(s) ELSE k)

TreeOut(l) == [tag |-> "tree", line |-> l]

\* Line 79: f"{full_path} ({char_count:,})".
TopOut(e) == [tag |-> "top", full_path |-> e.full_path, count |-> e.char_count]

Banner == [tag |-> "banner", width |-> BannerWidth]

\* Lines 66-79: everything written to the output file, line by line.
Report(lines, info) ==
    << Banner, [tag |-> "title_tree"], Banner, [tag |-> "blank"], [tag |-> "root"] >>
    \o [k \in 1..Len(lines) |-> TreeOut(lines[k])]
    \o << [tag |-> "blank"], Banner, [tag |-> "title_top"], Banner, [tag |-> "blank"] >>
    \o [k \in 1..Len(Slice(info, TopN)) |-> TopOut(Slice(info, TopN)[k])]

\* ------------------------------------------------------------ initial states

\* Three decimal digits of k.
Name3(k) == <<48 + (k \div 100), 48 + ((k \div 10) % 10), 48 + (k % 10)>>

Start ==
    /\ ignore_dirs = {}
    /\ stack = <<>>
    /\ tree_lines = <<>>
    /\ visited = <<>>
    /\ file_info = <<>>
    /\ pc = "start"
    /\ output = <<>>

\* Every tree of at most MaxNodes files and directories named from Names, with
\* at most one entry that cannot be opened or listed.
InitSmall ==
    \E n \in 0..MaxNodes :
        /\ parent \in {p \in [1..n -> 0..MaxNodes] : \A x \in 1..n : p[x] < x}
        /\ kind \in {k \in [1..n -> {"file", "dir"}] :
                        \A x \in 1..n : parent[x] # 0 => k[parent[x]] = "dir"}
        /\ name \in {m \in [1..n -> Names] :
                        \A x, y \in 1..n :
                            (x # y /\ parent[x] = parent[y]) => m[x] # m[y]}
        /\ denied \in {{}} \cup {{x} : x \in 0..n}
        /\ size \in {s \in [1..n -> Sizes \cup {0}] :
                        \A x \in 1..n : (kind[x] = "dir") <=> (s[x] = 0)}
        /\ ignore_arg \in IgnoreArgs
        /\ Start

\* A directory of n readable files, n around TopN, listed by the filesystem
\* in descending order of name, with sizes cycling through 1..m.
InitFlat ==
    \E n \in (TopN - 1)..MaxFlat, m \in {1, 3} :
        /\ parent = [x \in 1..n |-> 0]
        /\ kind = [x \in 1..n |-> "file"]
        /\ name = [x \in 1..n |-> Name3(n - x)]
        /\ denied = {}
        /\ size = [x \in 1..n |-> 1 + (x % m)]
        /\ ignore_arg = [none |-> TRUE, dirs |-> {}]
        /\ Start

Init == InitSmall \/ InitFlat

\* ------------------------------------------------------------------ actions

Top == Head(stack)

Item == Top.items[Top.i]

is_last_item == Top.i = Len(Top.items)

Advance(stk) == <<[Head(stk) EXCEPT !.i = @ + 1]>> \o Tail(stk)

\* Lines 19-23 and 50: the default ignore set, and the call walk_directory(root).
GetTreeStructure ==
    /\ pc = "start"
    /\ ignore_dirs' = IF ignore_arg.none THEN DefaultIgnoreDirs ELSE ignore_arg.dirs
    /\ stack' = <<Frame(0, <<>>, TRUE)>>
    /\ pc' = "walk"
    /\ UNCHANGED <<fsvars, tree_lines, visited, file_info, output>>

\* Lines 27-28 and 47-48: the body of a generator starts: list and sort the
\* directory, or end the generator on PermissionError.
EnterDir ==
    /\ pc = "walk"
    /\ stack # <<>>
    /\ ~Top.entered
    /\ LET r == iterdir(Top.path) IN
        IF r.raised # "none"
        THEN IF Caught(r.raised)
             THEN stack' = Unwind(stack) /\ pc' = pc
             ELSE stack' = <<>> /\ pc' = "crashed"
        ELSE /\ stack' = <<[Top EXCEPT !.entered = TRUE,
                                       !.items = sorted(r.items),
                                       !.i = 1]>> \o Tail(stack)
             /\ pc' = pc
    /\ UNCHANGED <<fsvars, ignore_dirs, tree_lines, visited, file_info, output>>

\* Lines 35-36: continue.
SkipIgnored ==
    /\ pc = "walk"
    /\ stack # <<>>
    /\ Top.entered
    /\ Top.i <= Len(Top.items)
    /\ IsIgnored(Item)
    /\ stack' = Advance(stack)
    /\ UNCHANGED <<fsvars, ignore_dirs, tree_lines, visited, file_info, pc, output>>

\* Lines 38-42.
VisitFile ==
    /\ pc = "walk"
    /\ stack # <<>>
    /\ Top.entered
    /\ Top.i <= Len(Top.items)
    /\ ~IsIgnored(Item)
    /\ is_file(Item)
    /\ LET char_count == count_chars(Item) IN
        /\ file_info' = RecordFile(file_info, Item, char_count)
        /\ tree_lines' = Append(tree_lines,
                                FileLine(Top.prefix, is_last_item, Item, char_count))
    /\ visited' = Append(visited, Item)
    /\ stack' = Advance(stack)
    /\ UNCHANGED <<fsvars, ignore_dirs, pc, output>>

\* Lines 43-46.
VisitDir ==
    /\ pc = "walk"
    /\ stack # <<>>
    /\ Top.entered
    /\ Top.i <= Len(Top.items)
    /\ ~IsIgnored(Item)
    /\ ~is_file(Item)
    /\ is_dir(Item)
    /\ tree_lines' = Append(tree_lines, DirLine(Top.prefix, is_last_item, Item))
    /\ visited' = Append(visited, Item)
    /\ stack' = Descend(Advance(stack),
                        Frame(Item, Append(Top.prefix, connector(is_last_item)),
                              is_last_item))
    /\ UNCHANGED <<fsvars, ignore_dirs, file_info, pc, output>>

\* Line 30: the loop is exhausted and the generator ends.
LeaveDir ==
    /\ pc = "walk"
    /\ stack # <<>>
    /\ Top.entered
    /\ Top.i > Len(Top.items)
    /\ stack' = Tail(stack)
    /\ UNCHANGED <<fsvars, ignore_dirs, tree_lines, visited, file_info, pc, output>>

\* Lines 50-51 and 58: list(...) is complete; get_tree_structure returns.
Return ==
    /\ pc = "walk"
    /\ stack = <<>>
    /\ pc' = "sort"
    /\ UNCHANGED <<fsvars, ignore_dirs, stack, tree_lines, visited, file_info, output>>

\* Line 61.
SortFiles ==
    /\ pc = "sort"
    /\ file_info' = SortDesc(file_info)
    /\ pc' = "write"
    /\ UNCHANGED <<fsvars, ignore_dirs, stack, tree_lines, visited, output>>

\* Lines 64-82.
WriteReport ==
    /\ pc = "write"
    /\ output' = Report(tree_lines, file_info)
    /\ pc' = "done"
    /\ UNCHANGED <<fsvars, ignore_dirs, stack, tree_lines, visited, file_info>>

Next ==
    \/ GetTreeStructure
    \/ EnterDir
    \/ SkipIgnored
    \/ VisitFile
    \/ VisitDir
    \/ LeaveDir
    \/ Return
    \/ SortFiles
    \/ WriteReport

Spec == Init /\ [][Next]_vars

\* ------------------------------------------------------------- properties

Walked == pc \in {"sort", "write", "done"}

VisitedSet == {visited[k] : k \in 1..Len(visited)}

\* x lies strictly beneath the directory d.
RECURSIVE Under(_, _)
Under(x, d) == x # 0 /\ (parent[x] = d \/ Under(parent[x], d))

\* p is a proper prefix of the path q.
ProperPrefix(p, q) == Len(p) < Len(q) /\ SubSeq(q, 1, Len(p)) = p

\* The walk gets to x: neither x nor a directory above it has an ignored
\* name, and every directory above it can be listed.
RECURSIVE Listed(_)
Listed(x) ==
    x = 0 \/ (name[x] \notin ignore_dirs /\ parent[x] \notin denied /\ Listed(parent[x]))

HasEntry(x) == \E j \in 1..Len(file_info) : file_info[j].full_path = PathOf(x)

\* The place of the line of the file with path p in the traversal.
PosOf(p) == CHOOSE k \in 1..Len(visited) : PathOf(visited[k]) = p

\* The indices of the file lines among tree_lines, in order.
FileLineIdx ==
    SelectSeq([k \in 1..Len(tree_lines) |-> k], LAMBDA k : ~tree_lines[k].isdir)

TopSection == SelectSeq(output, LAMBDA l : l.tag = "top")

\* C1: no tree line is emitted for a child whose name is in the ignore set,
\* and no FileEntry is recorded for such a child or for anything beneath it,
\* at any depth.
C1_IgnoredNeverListed ==
    /\ \A k \in 1..Len(tree_lines) : tree_lines[k].name \notin ignore_dirs
    /\ \A k \in 1..Len(visited) : name[visited[k]] \notin ignore_dirs
    /\ \A j \in 1..Len(file_info) :
          \A c \in 1..Len(file_info[j].full_path) :
              file_info[j].full_path[c] \notin ignore_dirs

\* C1 witness: the walk is over in a tree where a directory with an ignored
\* name sits below a listed directory and holds a file.
C1_Witness ==
    /\ pc = "done"
    /\ \E x, y \in Nodes :
          /\ name[x] \in ignore_dirs /\ is_dir(x)
          /\ parent[x] # 0 /\ parent[x] \in VisitedSet
          /\ parent[y] = x /\ is_file(y)

\* C2, as claimed: among the lines of the children of one directory, the last
\* emitted one has the last-child connector and every other one the
\* middle-child connector, also when some children are ignored.
C2_LastEmittedChildBranch ==
    Walked =>
        \A k \in 1..Len(visited) :
            LET last == \A j \in (k + 1)..Len(visited) :
                            parent[visited[j]] # parent[visited[k]]
            IN tree_lines[k].branch = IF last THEN LastBranch ELSE MidBranch

\* C3, as claimed: a sub-directory whose listing raises PermissionError gets
\* no tree line, nothing beneath it is recorded, and no error surfaces.
C3_DeniedDirNoLine ==
    /\ pc # "crashed"
    /\ \A x \in denied :
          (x # 0 /\ is_dir(x)) =>
              /\ x \notin VisitedSet
              /\ \A j \in 1..Len(file_info) :
                    ~ProperPrefix(PathOf(x), file_info[j].full_path)

\* C3, amended: such a sub-directory still gets its own tree line when the
\* walk gets to it, but nothing beneath it gets a tree line or a FileEntry,
\* and no error surfaces.
C3_DeniedDirOnlyOwnLine ==
    /\ pc # "crashed"
    /\ \A x \in denied :
          (x # 0 /\ is_dir(x)) =>
              /\ \A k \in 1..Len(visited) : ~Under(visited[k], x)
              /\ \A j \in 1..Len(file_info) :
                    ~ProperPrefix(PathOf(x), file_info[j].full_path)
              /\ (Walked /\ Listed(x)) =>
                    \E k \in 1..Len(visited) :
                        /\ visited[k] = x
                        /\ tree_lines[k].isdir
                        /\ tree_lines[k].name = name[x]

\* C3 witness: the walk is over and has met an unlistable sub-directory that
\* holds a file.
C3_Witness ==
    /\ pc = "done"
    /\ \E x \in denied, y \in Nodes :
          x # 0 /\ is_dir(x) /\ x \in VisitedSet /\ parent[y] = x /\ is_file(y)

\* C4: when the listing of a sub-directory X fails, every sibling that
\* follows X in the sorted order of the parent and is not ignored still gets
\* its line, its FileEntry if it is a file, and its children walked if it is
\* a directory.
C4_SiblingsAfterDeniedDir ==
    Walked =>
        \A x \in denied :
            (x # 0 /\ is_dir(x) /\ x \in VisitedSet) =>
                \A s \in Nodes :
                    ( /\ parent[s] = parent[x]
                      /\ s # x
                      /\ name[s] \notin ignore_dirs
                      /\ \/ is_file(s)
                         \/ StrLess(lower(name[x]), lower(name[s]))
                         \/ (lower(name[x]) = lower(name[s]) /\ x < s) )
                    => /\ s \in VisitedSet
                       /\ is_file(s) => HasEntry(s)
                       /\ (is_dir(s) /\ s \notin denied) =>
                             \A c \in Nodes :
                                 (parent[c] = s /\ name[c] \notin ignore_dirs)
                                     => c \in VisitedSet

\* C4 witness: the walk is over, an unlistable directory was met, and a
\* sibling directory sorted after it holds a file.
C4_Witness ==
    /\ pc = "done"
    /\ \E x \in denied, s, c \in Nodes :
          /\ x # 0 /\ is_dir(x) /\ x \in VisitedSet
          /\ parent[s] = parent[x] /\ is_dir(s)
          /\ StrLess(lower(name[x]), lower(name[s]))
          /\ parent[c] = s /\ is_file(c) /\ c \in VisitedSet

\* C5: a visited file whose open fails counts 0: it has its tree line and
\* exactly one FileEntry, both with count 0, and no failure propagates.
C5_UnreadableFileCountsZero ==
    /\ pc # "crashed"
    /\ \A k \in 1..Len(visited) :
          (is_file(visited[k]) /\ visited[k] \in denied) =>
              /\ tree_lines[k].count = 0
              /\ ~tree_lines[k].isdir
              /\ Cardinality({j \in 1..Len(file_info) :
                                file_info[j].full_path = PathOf(visited[k])}) = 1
              /\ \A j \in 1..Len(file_info) :
                    file_info[j].full_path = PathOf(visited[k])
                        => file_info[j].char_count = 0
    /\ Walked => \A x \in denied : (x # 0 /\ is_file(x) /\ Listed(x)) => x \in VisitedSet

\* C5 witness: the walk is over and has met a non-empty file that cannot be
\* opened.
C5_Witness ==
    /\ pc = "done"
    /\ \E x \in denied : x # 0 /\ is_file(x) /\ size[x] > 0 /\ x \in VisitedSet

\* C6: after the sort, file_info holds the entries of the walk, counts never
\* increase from one entry to the next, and entries with equal counts are in
\* the order in which the walk recorded them.
C6_StableDescendingSort ==
    pc \in {"write", "done"} =>
        /\ Len(file_info) = Cardinality({x \in VisitedSet : is_file(x)})
        /\ \A x \in VisitedSet :
              is_file(x) =>
                  \E j \in 1..Len(file_info) :
                      /\ file_info[j].full_path = PathOf(x)
                      /\ file_info[j].char_count = count_chars(x)
        /\ \A j \in 1..(Len(file_info) - 1) :
              /\ file_info[j].char_count >= file_info[j + 1].char_count
              /\ file_info[j].char_count = file_info[j + 1].char_count
                    => PosOf(file_info[j].full_path) < PosOf(file_info[j + 1].full_path)

\* C6 witness: the sort has run on a list with two equal counts and with a
\* smaller count recorded before a larger one.
C6_Witness ==
    /\ pc = "done"
    /\ \E i, j \in 1..Len(file_info) :
          i < j /\ file_info[i].char_count = file_info[j].char_count
    /\ \E i, j \in 1..Len(file_info) :
          i < j /\ PosOf(file_info[i].full_path) > PosOf(file_info[j].full_path)

\* C7: the top-files section holds min(100, total) lines, and they are the
\* first entries of the sorted list, in order.
C7_TopSectionIsPrefix ==
    pc = "done" =>
        /\ Len(TopSection) <= TopN
        /\ Len(TopSection) <= Len(file_info)
        /\ Len(TopSection) = IF Len(file_info) < TopN THEN Len(file_info) ELSE TopN
        /\ \A j \in 1..Len(TopSection) :
              /\ TopSection[j].full_path = file_info[j].full_path
              /\ TopSection[j].count = file_info[j].char_count

\* C7 witness: the report is written from more than 100 FileEntry records.
C7_Witness == pc = "done" /\ Len(file_info) > TopN /\ Len(TopSection) = TopN

\* C8: among the lines of the children of one directory, no file comes before
\* a directory, and two directories, or two files, come in ascending order of
\* the lower-cased name.
C8_DirsFirstThenByLowerName ==
    Walked =>
        \A j, k \in 1..Len(visited) :
            (j < k /\ parent[visited[j]] = parent[visited[k]]) =>
                /\ ~(is_file(visited[j]) /\ is_dir(visited[k]))
                /\ kind[visited[j]] = kind[visited[k]]
                      => ~StrLess(lower(name[visited[k]]), lower(name[visited[j]]))

\* C8 witness: one directory shows a sub-directory before a file of smaller
\* name, and two files whose order by lower-cased name differs from their
\* order by name.
C8_Witness ==
    /\ pc = "done"
    /\ \E i, j, k \in 1..Len(visited) :
          /\ i < j /\ j < k
          /\ parent[visited[i]] = parent[visited[j]]
          /\ parent[visited[j]] = parent[visited[k]]
          /\ is_dir(visited[i]) /\ is_file(visited[j]) /\ is_file(visited[k])
          /\ StrLess(name[visited[j]], name[visited[i]])
          /\ StrLess(name[visited[k]], name[visited[j]])

\* C9: the line of a directory comes before the lines of everything beneath
\* it, and those lines are one block right after it.
C9_DepthFirstPreOrder ==
    \A k \in 1..Len(visited) :
        is_dir(visited[k]) =>
            \A j \in 1..Len(visited) :
                Under(visited[j], visited[k]) =>
                    /\ k < j
                    /\ \A m \in (k + 1)..j : Under(visited[m], visited[k])

\* C9 witness: the walk is over, and a directory, then something in it, then
\* a later sibling of that directory have got their lines.
C9_Witness ==
    /\ pc = "done"
    /\ \E i, j, k \in 1..Len(visited) :
          /\ i < j /\ j < k
          /\ is_dir(visited[i])
          /\ parent[visited[j]] = visited[i]
          /\ parent[visited[k]] = parent[visited[i]]

\* C10: when get_tree_structure returns (and all along the walk), the k-th
\* FileEntry is the file of the k-th file line and has its count; the number
\* of entries is the number of file lines, also after the sort.
C10_FileInfoMatchesFileLines ==
    /\ Len(file_info) = Len(FileLineIdx)
    /\ pc \in {"walk", "sort"} =>
          \A k \in 1..Len(file_info) :
              LET i == FileLineIdx[k] IN
                  /\ file_info[k].full_path = PathOf(visited[i])
                  /\ file_info[k].relative_path = PathOf(visited[i])
                  /\ file_info[k].char_count = tree_lines[i].count
                  /\ tree_lines[i].name = name[visited[i]]

\* C10 witness: get_tree_structure has returned two or more entries, one of
\* them of an unreadable file, and a directory line.
C10_Witness ==
    /\ pc = "sort"
    /\ Len(file_info) >= 2
    /\ \E j \in 1..Len(file_info) : file_info[j].char_count = 0
    /\ \E k \in 1..Len(tree_lines) : tree_lines[k].isdir

====
